---- MODULE Spec2Model ----
(***************************************************************************)
(* Model of the QueryTube loader (vector_db.py): identifier resolution,    *)
(* document sanitizing, embedding parsing, the row loop of main(), the     *)
(* batch insert with its call-convention fallbacks, and the bootstrap of   *)
(* the Chroma client and collection.                                       *)
(*                                                                         *)
(* Python strings are sequences of one-character strings, so that strip,   *)
(* lower, split and the f-string suffixing are computed as Python computes *)
(* them.  A cell of a pandas row is a tagged value: None (row.get on a      *)
(* column the frame does not have), NaN (an empty CSV cell), a str or an   *)
(* int (a cell of a numeric column).                                       *)
(***************************************************************************)
EXTENDS Integers, Sequences, FiniteSets, TLC

VARIABLES
    arg,            \* SpecResolve / SpecDoc: the arguments of the call
    ret,            \* SpecResolve / SpecDoc: the value returned, NoRet before the call
    bpc,            \* SpecBootstrap: position in create_chroma_client / get_or_create_collection
    env,            \* SpecBootstrap: what the installed chromadb does (which calls raise, which attributes exist)
    attempts,       \* SpecBootstrap: the constructors / entry points called so far, in order
    printed,        \* SpecBootstrap: the lines printed so far, in order
    result,         \* SpecBootstrap: what the function returned or raised
    pc,             \* SpecLoader: position in main()
    df,             \* SpecLoader: the rows iterated so far (index k-1 is row k)
    vid,            \* SpecLoader: main's vid
    original_vid,   \* SpecLoader: main's original_vid
    counter,        \* SpecLoader: main's counter
    used_ids,       \* SpecLoader: main's used_ids
    ids,            \* SpecLoader: main's ids
    documents,      \* SpecLoader: main's documents
    embeddings,     \* SpecLoader: main's embeddings
    rowOf,          \* SpecLoader: history, the row index each entry of ids came from
    assigned,       \* SpecLoader: history, the unique ID given to each row iterated
    skipped,        \* SpecLoader: history, the row indexes reported as skipped
    i,              \* SpecLoader: start of the current batch
    caps,           \* SpecLoader: what hasattr has told of the collection so far
    calls,          \* SpecLoader: history, the store calls made, in order
    store,          \* SpecLoader: the documents the collection holds, in insertion order
    report          \* SpecLoader: the lines main printed about batches and the outcome

vars == <<arg, ret, bpc, env, attempts, printed, result, pc, df, vid, original_vid,
          counter, used_ids, ids, documents, embeddings, rowOf, assigned, skipped,
          i, caps, calls, store, report>>

resolveVars == <<arg, ret>>
bootVars == <<bpc, env, attempts, printed, result>>
loaderVars == <<pc, df, vid, original_vid, counter, used_ids, ids, documents,
                embeddings, rowOf, assigned, skipped, i, caps, calls, store, report>>

----------------------------------------------------------------------------
(* Python values and string operations                                     *)

PyNone == [t |-> "None"]
PyNaN == [t |-> "NaN"]
PyStr(s) == [t |-> "str", s |-> s]
PyInt(n) == [t |-> "int", n |-> n]

\* pandas.isna on a scalar: True for None and for NaN
isna(x) == x.t \in {"None", "NaN"}
notna(x) == ~isna(x)

Digits == <<"0", "1", "2", "3", "4", "5", "6", "7", "8", "9">>

RECURSIVE IntToStr(_)
\* str(n) of a non-negative int
IntToStr(n) == IF n < 10 THEN <<Digits[n + 1]>>
               ELSE IntToStr(n \div 10) \o <<Digits[(n % 10) + 1]>>

\* str(x)
Str(x) == CASE x.t = "None" -> <<"N", "o", "n", "e">>
            [] x.t = "NaN" -> <<"n", "a", "n">>
            [] x.t = "str" -> x.s
            [] x.t = "int" -> IntToStr(x.n)

\* bool(x): None, "" and 0 are falsy; NaN (a float) is truthy
Truthy(x) == CASE x.t = "None" -> FALSE
               [] x.t = "NaN" -> TRUE
               [] x.t = "str" -> x.s /= <<>>
               [] x.t = "int" -> x.n /= 0

Whitespace == {" ", "\t", "\n", "\r", "\f"}

RECURSIVE LStrip(_)
LStrip(s) == IF s /= <<>> /\ Head(s) \in Whitespace THEN LStrip(Tail(s)) ELSE s

RECURSIVE RStrip(_)
RStrip(s) == IF s /= <<>> /\ s[Len(s)] \in Whitespace
             THEN RStrip(SubSeq(s, 1, Len(s) - 1)) ELSE s

\* str.strip()
Strip(s) == RStrip(LStrip(s))

Upper == <<"A", "B", "C", "D", "E", "F", "G", "H", "I", "J", "K", "L", "M",
           "N", "O", "P", "Q", "R", "S", "T", "U", "V", "W", "X", "Y", "Z">>
LowerOf == <<"a", "b", "c", "d", "e", "f", "g", "h", "i", "j", "k", "l", "m",
             "n", "o", "p", "q", "r", "s", "t", "u", "v", "w", "x", "y", "z">>

LowerChar(c) == IF \E k \in 1..26 : Upper[k] = c
                THEN LowerOf[CHOOSE k \in 1..26 : Upper[k] = c]
                ELSE c

\* str.lower()
Lower(s) == [k \in 1..Len(s) |-> LowerChar(s[k])]

\* s[i:] starts with p
StartsAt(s, p, k) == /\ k + Len(p) - 1 <= Len(s)
                     /\ \A j \in 1..Len(p) : s[k + j - 1] = p[j]

\* p in s, for a non-empty p
Contains(s, p) == \E k \in 1..Len(s) : StartsAt(s, p, k)

FirstAt(s, p) == CHOOSE k \in 1..Len(s) :
                    StartsAt(s, p, k) /\ \A j \in 1..(k - 1) : ~StartsAt(s, p, j)

RECURSIVE Split(_, _)
\* s.split(sep), for a non-empty sep: left to right, non-overlapping
Split(s, sep) == IF ~Contains(s, sep) THEN <<s>>
                 ELSE LET k == FirstAt(s, sep)
                      IN <<SubSeq(s, 1, k - 1)>>
                           \o Split(SubSeq(s, k + Len(sep), Len(s)), sep)

s_nan == <<"n", "a", "n">>
s_veq == <<"v", "=">>
s_amp == <<"&">>
s_vid_ == <<"v", "i", "d", "_">>
s_us == <<"_">>

----------------------------------------------------------------------------
(* get_valid_video_id                                                      *)

\* the test of lines 116 and 120
IdFieldOk(v) == /\ notna(v)
                /\ v.t /= "None"
                /\ Strip(Str(v)) /= <<>>
                /\ Lower(Str(v)) /= s_nan

\* the test of line 125
UrlHasV(url) == notna(url) /\ url.t /= "None" /\ Contains(Str(url), s_veq)

\* line 127
VidFromUrl(url) == Split(Split(Str(url), s_veq)[2], s_amp)[1]

\* f"vid_{idx}"
SynthId(idx) == s_vid_ \o IntToStr(idx)

\* get_valid_video_id without the test of line 128
get_valid_video_id_NoEmptyCheck(row, idx) ==
    IF IdFieldOk(row.video_id) THEN Strip(Str(row.video_id))
    ELSE IF IdFieldOk(row.id) THEN Strip(Str(row.id))
    ELSE IF UrlHasV(row.url) THEN VidFromUrl(row.url)
    ELSE SynthId(idx)

get_valid_video_id(row, idx) ==
    IF IdFieldOk(row.video_id) THEN Strip(Str(row.video_id))
    ELSE IF IdFieldOk(row.id) THEN Strip(Str(row.id))
    ELSE IF UrlHasV(row.url) /\ VidFromUrl(row.url) /= <<>> THEN VidFromUrl(row.url)
    ELSE SynthId(idx)

----------------------------------------------------------------------------
(* Document selection and sanitizing, lines 175-186 of main()              *)

\* the test of lines 177 and 179: not raw_doc or pd.isna(raw_doc)
DocUnusable(v) == ~Truthy(v) \/ isna(v)

\* lines 176-180; a column the row does not have reads as None
SelectRawDoc(row) ==
    LET r1 == row.transcript_clean
        r2 == IF DocUnusable(r1) THEN row.combined_text ELSE r1
        r3 == IF DocUnusable(r2) THEN row.transcript ELSE r2
    IN r3

\* Sanitize without the test of line 183
Sanitize_StrOnly(raw_doc) == Str(raw_doc)

\* lines 183-186
Sanitize(raw_doc) == IF isna(raw_doc) \/ raw_doc.t = "None" THEN <<>> ELSE Str(raw_doc)

SafeDoc(row) == Sanitize(SelectRawDoc(row))

----------------------------------------------------------------------------
(* ensure_embedding_list                                                   *)
(* ast.literal_eval and json.loads are library parsers: an embedding cell  *)
(* that is text carries what each of them does on that text: raises,       *)
(* yields a value list() cannot iterate, or yields an iterable.            *)

Raises == [k |-> "raise"]
Scalar == [k |-> "scalar"]
Iter(items) == [k |-> "iter", items |-> items]

EmbText(lit, js) == [t |-> "str", empty |-> FALSE, lit |-> lit, js |-> js]
PyList(items) == [t |-> "list", items |-> items]

ensure_embedding_list(x) ==
    IF isna(x) \/ x.t = "None" \/ (x.t = "str" /\ x.empty) THEN PyNone
    ELSE IF x.t = "str"
         THEN IF x.lit.k = "iter" THEN PyList(x.lit.items)
              ELSE IF x.js.k = "iter" THEN PyList(x.js.items)
              ELSE PyNone
    ELSE PyNone

----------------------------------------------------------------------------
(* Inputs of the pure-function specifications                              *)

MaxIdx == 11

s_abc == <<"a", "b", "c">>
s_hello == <<"h", "e", "l", "l", "o">>
s_hi == <<"h", "i">>

IdCells == {PyNone, PyNaN, PyStr(<<>>), PyStr(<<" ", " ">>), PyStr(s_abc),
            PyStr(<<" ", "a", "b", "c", "\t">>), PyStr(s_nan), PyStr(<<"N", "a", "N">>),
            PyStr(<<" ", "n", "a", "n">>), PyInt(0), PyInt(42)}

AltIdCells == {PyNone, PyNaN, PyStr(<<" ">>), PyStr(<<"x", "y">>), PyStr(<<"N", "A", "N">>), PyInt(7)}

\* "w?v=abc", "w?v=abc&t=1", "w?v=", "w?v=&t=1", "w?t=1", "w?rev=1&v=abc", "v=av=b"
UrlCells == {PyNone, PyNaN, PyInt(5), PyStr(<<>>),
             PyStr(<<"w", "?", "v", "=", "a", "b", "c">>),
             PyStr(<<"w", "?", "v", "=", "a", "b", "c", "&", "t", "=", "1">>),
             PyStr(<<"w", "?", "v", "=">>),
             PyStr(<<"w", "?", "v", "=", "&", "t", "=", "1">>),
             PyStr(<<"w", "?", "t", "=", "1">>),
             PyStr(<<"w", "?", "r", "e", "v", "=", "1", "&", "v", "=", "a", "b", "c">>),
             PyStr(<<"v", "=", "a", "v", "=", "b">>)}

DocCells == {PyNone, PyNaN, PyStr(<<>>), PyStr(s_hello), PyStr(s_hi), PyInt(0), PyInt(5)}

NoRet == [t |-> "pending"]

NoResult == [fn |-> "none", kind |-> "none", what |-> "none"]

BootIdle == bpc = "idle" /\ env = {} /\ attempts = <<>> /\ printed = <<>> /\ result = NoResult

LoaderIdle ==
    /\ pc = "idle" /\ df = <<>> /\ vid = <<>> /\ original_vid = <<>> /\ counter = 1
    /\ used_ids = {} /\ ids = <<>> /\ documents = <<>> /\ embeddings = <<>>
    /\ rowOf = <<>> /\ assigned = <<>> /\ skipped = {} /\ i = 0
    /\ caps = [upsert |-> "unread"] /\ calls = <<>> /\ store = <<>> /\ report = <<>>

----------------------------------------------------------------------------
(* SpecResolve: get_valid_video_id applied to one row                      *)

InitResolve ==
    /\ \E v \in IdCells, a \in AltIdCells, u \in UrlCells, n \in 0..MaxIdx :
          arg = [row |-> [video_id |-> v, id |-> a, url |-> u], idx |-> n]
    /\ ret = NoRet
    /\ BootIdle
    /\ LoaderIdle

Resolve ==
    /\ ret = NoRet
    /\ ret' = PyStr(get_valid_video_id(arg.row, arg.idx))
    /\ UNCHANGED <<arg, bootVars, loaderVars>>

NextResolve == Resolve

SpecResolve == InitResolve /\ [][NextResolve]_vars

----------------------------------------------------------------------------
(* SpecDoc: the document of one row                                        *)

InitDoc ==
    /\ \E a \in DocCells, b \in DocCells, c \in DocCells :
          arg = [transcript_clean |-> a, combined_text |-> b, transcript |-> c]
    /\ ret = NoRet
    /\ BootIdle
    /\ LoaderIdle

BuildDoc ==
    /\ ret = NoRet
    /\ ret' = [t |-> "doc", raw |-> SelectRawDoc(arg), safe_doc |-> SafeDoc(arg)]
    /\ UNCHANGED <<arg, bootVars, loaderVars>>

NextDoc == BuildDoc

SpecDoc == InitDoc /\ [][NextDoc]_vars

----------------------------------------------------------------------------
(* SpecBootstrap: create_chroma_client, then get_or_create_collection on   *)
(* the client it returned (lines 145-146 of main()).  Each constructor or  *)
(* entry point of chromadb either returns or raises; both are drawn when   *)
(* the call is made.  attempts records every call with its outcome and     *)
(* printed every line the two functions print.                             *)

Strategies == <<"PersistentClient", "HttpClient", "Settings", "Client">>
CollectionAttrs == {"get_or_create_collection", "create_collection", "get_collection"}

Attempt(fn, call, outcome) == [fn |-> fn, call |-> call, outcome |-> outcome]
Line(fn, about, kind) == [fn |-> fn, about |-> about, kind |-> kind]
Returned(fn, what) == [fn |-> fn, kind |-> "return", what |-> what]
Raised(fn, what) == [fn |-> fn, kind |-> "raise", what |-> what]
InitBootstrap ==
    /\ bpc = "setup"
    /\ env = {}
    /\ attempts = <<>>
    /\ printed = <<>>
    /\ result = NoResult
    /\ arg = NoRet /\ ret = NoRet
    /\ LoaderIdle

\* a strategy of create_chroma_client returned a client: print, return it, and
\* main goes on to get_or_create_collection with that client
ClientCreated(strategy) ==
    /\ attempts' = Append(attempts, Attempt("create_chroma_client", strategy, "ok"))
    /\ printed' = Append(printed, Line("create_chroma_client", strategy, "created"))
    /\ result' = Returned("create_chroma_client", strategy)
    /\ \E has \in SUBSET CollectionAttrs : env' = has
    /\ bpc' = "collection"

\* a strategy raised; say tells whether its handler prints
StrategyFailed(strategy, exc, say, next) ==
    /\ attempts' = Append(attempts, Attempt("create_chroma_client", strategy, exc))
    /\ printed' = IF say THEN Append(printed, Line("create_chroma_client", strategy, "failed"))
                  ELSE printed
    /\ bpc' = next
    /\ UNCHANGED <<result, env>>

\* lines 37-41: import chromadb and mkdir
SetupOk ==
    /\ bpc = "setup"
    /\ bpc' = "PersistentClient"
    /\ UNCHANGED <<env, attempts, printed, result, resolveVars, loaderVars>>

SetupRaises ==
    /\ bpc = "setup"
    /\ \E exc \in {"ImportError", "OSError"} : result' = Raised("create_chroma_client", exc)
    /\ bpc' = "fatal"
    /\ UNCHANGED <<env, attempts, printed, resolveVars, loaderVars>>

\* lines 44-47
PersistentClientOk ==
    /\ bpc = "PersistentClient"
    /\ ClientCreated("PersistentClient")
    /\ UNCHANGED <<resolveVars, loaderVars>>

\* lines 48-51
PersistentClientRaises ==
    /\ bpc = "PersistentClient"
    /\ \E exc \in {"AttributeError", "Exception"} :
          StrategyFailed("PersistentClient", exc, TRUE, "HttpClient")
    /\ UNCHANGED <<resolveVars, loaderVars>>

\* lines 54-57
HttpClientOk ==
    /\ bpc = "HttpClient"
    /\ ClientCreated("HttpClient")
    /\ UNCHANGED <<resolveVars, loaderVars>>

\* lines 58-59: except Exception: pass
HttpClientRaises ==
    /\ bpc = "HttpClient"
    /\ StrategyFailed("HttpClient", "Exception", FALSE, "Settings")
    /\ UNCHANGED <<resolveVars, loaderVars>>

\* lines 62-69
SettingsOk ==
    /\ bpc = "Settings"
    /\ ClientCreated("Settings")
    /\ UNCHANGED <<resolveVars, loaderVars>>

\* SettingsRaises giving up instead of going on to Client(path)
SettingsRaises_GivesUp ==
    /\ bpc = "Settings"
    /\ attempts' = Append(attempts, Attempt("create_chroma_client", "Settings", "Exception"))
    /\ printed' = Append(printed, Line("create_chroma_client", "Settings", "failed"))
    /\ result' = Raised("create_chroma_client", "RuntimeError")
    /\ bpc' = "fatal"
    /\ UNCHANGED <<env, resolveVars, loaderVars>>

\* lines 70-71
SettingsRaises ==
    /\ bpc = "Settings"
    /\ StrategyFailed("Settings", "Exception", TRUE, "Client")
    /\ UNCHANGED <<resolveVars, loaderVars>>

\* lines 74-77
ClientPathOk ==
    /\ bpc = "Client"
    /\ ClientCreated("Client")
    /\ UNCHANGED <<resolveVars, loaderVars>>

\* lines 78-85: the last strategy raised, so RuntimeError
ClientPathRaises ==
    /\ bpc = "Client"
    /\ attempts' = Append(attempts, Attempt("create_chroma_client", "Client", "Exception"))
    /\ printed' = Append(printed, Line("create_chroma_client", "Client", "failed"))
    /\ result' = Raised("create_chroma_client", "RuntimeError")
    /\ bpc' = "fatal"
    /\ UNCHANGED <<env, resolveVars, loaderVars>>

\* an entry point of the client returned the collection
CollectionReturned(call) ==
    /\ attempts' = Append(attempts, Attempt("get_or_create_collection", call, "ok"))
    /\ printed' = Append(printed, Line("get_or_create_collection", call, "using"))
    /\ result' = Returned("get_or_create_collection", call)
    /\ bpc' = "ready"
    /\ UNCHANGED env

\* an entry point raised into the outer handler (lines 107-110)
CollectionError(call) ==
    /\ attempts' = Append(attempts, Attempt("get_or_create_collection", call, "Exception"))
    /\ printed' = Append(printed, Line("get_or_create_collection", call, "failed"))
    /\ result' = Raised("get_or_create_collection", "RuntimeError")
    /\ bpc' = "fatal"
    /\ UNCHANGED env

\* lines 89-92
GetOrCreateOk ==
    /\ bpc = "collection" /\ "get_or_create_collection" \in env
    /\ CollectionReturned("get_or_create_collection")
    /\ UNCHANGED <<resolveVars, loaderVars>>

\* line 90 raises: lines 107-110
GetOrCreateRaises ==
    /\ bpc = "collection" /\ "get_or_create_collection" \in env
    /\ CollectionError("get_or_create_collection")
    /\ UNCHANGED <<resolveVars, loaderVars>>

\* lines 93-97
CreateCollectionOk ==
    /\ bpc = "collection" /\ "get_or_create_collection" \notin env
    /\ "create_collection" \in env
    /\ CollectionReturned("create_collection")
    /\ UNCHANGED <<resolveVars, loaderVars>>

\* CreateCollectionRaises without the get_collection of lines 99-102
CreateCollectionRaises_NoRetry ==
    /\ bpc = "collection" /\ "get_or_create_collection" \notin env
    /\ "create_collection" \in env
    /\ attempts' = Append(attempts, Attempt("get_or_create_collection", "create_collection", "Exception"))
    /\ bpc' = "fatal" /\ result' = Raised("get_or_create_collection", "RuntimeError")
    /\ UNCHANGED <<env, printed, resolveVars, loaderVars>>

\* lines 98-99: create_collection raised; get_collection is tried when the client
\* has it, else control falls to line 103 (false) and line 110 raises
CreateCollectionRaises ==
    /\ bpc = "collection" /\ "get_or_create_collection" \notin env
    /\ "create_collection" \in env
    /\ attempts' = Append(attempts, Attempt("get_or_create_collection", "create_collection", "Exception"))
    /\ IF "get_collection" \in env
       THEN bpc' = "get_after_create" /\ UNCHANGED result
       ELSE bpc' = "fatal" /\ result' = Raised("get_or_create_collection", "RuntimeError")
    /\ UNCHANGED <<env, printed, resolveVars, loaderVars>>

\* lines 100-102
GetAfterCreateOk ==
    /\ bpc = "get_after_create"
    /\ CollectionReturned("get_collection")
    /\ UNCHANGED <<resolveVars, loaderVars>>

\* line 100 raises inside the handler: caught by the outer handler
GetAfterCreateRaises ==
    /\ bpc = "get_after_create"
    /\ CollectionError("get_collection")
    /\ UNCHANGED <<resolveVars, loaderVars>>

\* lines 103-106
GetCollectionOk ==
    /\ bpc = "collection" /\ "get_or_create_collection" \notin env
    /\ "create_collection" \notin env /\ "get_collection" \in env
    /\ CollectionReturned("get_collection")
    /\ UNCHANGED <<resolveVars, loaderVars>>

GetCollectionRaises ==
    /\ bpc = "collection" /\ "get_or_create_collection" \notin env
    /\ "create_collection" \notin env /\ "get_collection" \in env
    /\ CollectionError("get_collection")
    /\ UNCHANGED <<resolveVars, loaderVars>>

\* the client has none of the three entry points: line 110
NoEntryPoint ==
    /\ bpc = "collection" /\ env \cap CollectionAttrs = {}
    /\ result' = Raised("get_or_create_collection", "RuntimeError")
    /\ bpc' = "fatal"
    /\ UNCHANGED <<env, attempts, printed, resolveVars, loaderVars>>

NextBootstrap ==
    \/ SetupOk \/ SetupRaises
    \/ PersistentClientOk \/ PersistentClientRaises
    \/ HttpClientOk \/ HttpClientRaises
    \/ SettingsOk \/ SettingsRaises
    \/ ClientPathOk \/ ClientPathRaises
    \/ GetOrCreateOk \/ GetOrCreateRaises
    \/ CreateCollectionOk \/ CreateCollectionRaises
    \/ GetAfterCreateOk \/ GetAfterCreateRaises
    \/ GetCollectionOk \/ GetCollectionRaises
    \/ NoEntryPoint

SpecBootstrap == InitBootstrap /\ [][NextBootstrap]_vars

----------------------------------------------------------------------------
(* SpecLoader: main() from the row loop on (lines 148-262), with a client  *)
(* and a collection obtained.  The frame is read row by row; its length    *)
(* is any number up to MaxRows.  The collection starts empty.  metadatas   *)
(* is built in step with ids (lines 188-209 cannot raise) and is left out. *)
(* Whether the collection has upsert and the client has persist is fixed   *)
(* for the run and is drawn where hasattr first reads it; caps keeps the   *)
(* answer about upsert for the batches that follow.                        *)

MaxRows == 4

\* main's BATCH (256 in the source), scaled so that MaxRows rows span several batches
BATCH == 2

s_vid_1 == <<"v", "i", "d", "_", "1">>
s_vid_1_1 == <<"v", "i", "d", "_", "1", "_", "1">>

Row(v, a, u, e, tc, ct, tr) ==
    [video_id |-> v, id |-> a, url |-> u, embedding |-> e,
     transcript_clean |-> tc, combined_text |-> ct, transcript |-> tr]

\* the rows a frame is made of
LoaderRows ==
    { \* explicit video_id "vid_1", embedding a Python literal, transcript_clean
      Row(PyStr(s_vid_1), PyNaN, PyNaN, EmbText(Iter(<<1, 2>>), Iter(<<1, 2>>)),
          PyStr(s_hi), PyStr(s_hello), PyNaN),
      \* alternate id " vid_1_1", embedding only json can read, combined_text
      Row(PyNaN, PyStr(<<" ">> \o s_vid_1_1), PyNaN, EmbText(Raises, Iter(<<1, 2>>)),
          PyNaN, PyStr(s_hello), PyNaN),
      \* no ID at all (synthesized), no text at all
      Row(PyNaN, PyNaN, PyNaN, EmbText(Iter(<<1, 2>>), Raises), PyNaN, PyNaN, PyNone),
      \* no ID, empty embedding cell
      Row(PyNaN, PyNaN, PyNone, PyNaN, PyStr(s_hi), PyNaN, PyNaN),
      \* explicit video_id "vid_1", embedding text no parser reads
      Row(PyStr(s_vid_1), PyNaN, PyNaN, EmbText(Raises, Scalar), PyStr(s_hi), PyNaN, PyNaN),
      \* ID from the url "w?v=vid_1&t=1", numeric transcript
      Row(PyNaN, PyNaN, PyStr(<<"w", "?", "v", "=">> \o s_vid_1 \o <<"&", "t", "=", "1">>),
          EmbText(Iter(<<1, 2>>), Iter(<<1, 2>>)), PyNaN, PyNaN, PyInt(5)) }

Min(a, b) == IF a < b THEN a ELSE b

\* ids[i:j], documents[i:j] and embeddings[i:j] of lines 224-228, as one list of documents
BatchOf(start) ==
    [k \in 1..(Min(start + BATCH, Len(ids)) - start) |->
        [id |-> ids[start + k], document |-> documents[start + k],
         embedding |-> embeddings[start + k]]]

Call(name, start, batch, outcome) ==
    [call |-> name, start |-> start, batch |-> batch, outcome |-> outcome]

Said(kind, start) == [kind |-> kind, start |-> start]

RECURSIVE UpsertInto(_, _)
\* collection.upsert: insert, or replace the stored document that has the ID
UpsertInto(held, batch) ==
    IF batch = <<>> THEN held
    ELSE LET d == Head(batch)
             at == {k \in 1..Len(held) : held[k].id = d.id}
             next == IF at = {} THEN Append(held, d)
                     ELSE [k \in 1..Len(held) |-> IF k \in at THEN d ELSE held[k]]
         IN UpsertInto(next, Tail(batch))

InitLoader ==
    /\ pc = "rows"
    /\ df = <<>>
    /\ vid = <<>> /\ original_vid = <<>> /\ counter = 1
    /\ used_ids = {}
    /\ ids = <<>> /\ documents = <<>> /\ embeddings = <<>>
    /\ rowOf = <<>> /\ assigned = <<>> /\ skipped = {}
    /\ i = 0
    /\ caps = [upsert |-> "unread"]
    /\ calls = <<>> /\ store = <<>> /\ report = <<>>
    /\ arg = NoRet /\ ret = NoRet
    /\ BootIdle

\* lines 157-163: the next row of the frame
NextRow ==
    /\ pc = "rows" /\ Len(df) < MaxRows
    /\ \E row \in LoaderRows :
          /\ df' = Append(df, row)
          /\ vid' = get_valid_video_id(row, Len(df))
          /\ original_vid' = get_valid_video_id(row, Len(df))
    /\ counter' = 1
    /\ pc' = "dedup"
    /\ UNCHANGED <<used_ids, ids, documents, embeddings, rowOf, assigned, skipped,
                   i, caps, calls, store, report, resolveVars, bootVars>>

\* Suffix appending to vid where the source appends to original_vid
Suffix_Cumulative ==
    /\ pc = "dedup" /\ vid \in used_ids
    /\ vid' = vid \o s_us \o IntToStr(counter)
    /\ counter' = counter + 1
    /\ UNCHANGED <<pc, df, original_vid, used_ids, ids, documents, embeddings, rowOf,
                   assigned, skipped, i, caps, calls, store, report, resolveVars, bootVars>>

\* lines 164-166: one iteration of the while loop
Suffix ==
    /\ pc = "dedup" /\ vid \in used_ids
    /\ vid' = original_vid \o s_us \o IntToStr(counter)
    /\ counter' = counter + 1
    /\ UNCHANGED <<pc, df, original_vid, used_ids, ids, documents, embeddings, rowOf,
                   assigned, skipped, i, caps, calls, store, report, resolveVars, bootVars>>

\* MarkUsed without the used_ids.add of line 167
MarkUsed_Forgotten ==
    /\ used_ids' = used_ids
    /\ assigned' = Append(assigned, vid)

\* line 167
MarkUsed ==
    /\ used_ids' = used_ids \cup {vid}
    /\ assigned' = Append(assigned, vid)

\* SkipOrAppend without the continue of line 173
SkipOrAppend_NoContinue(row, idx) ==
    LET emb == ensure_embedding_list(row.embedding)
    IN /\ skipped' = IF emb = PyNone THEN skipped \cup {idx} ELSE skipped
       /\ ids' = Append(ids, vid)
       /\ documents' = Append(documents, SafeDoc(row))
       /\ embeddings' = Append(embeddings, IF emb = PyNone THEN <<>> ELSE emb.items)
       /\ rowOf' = Append(rowOf, idx)

\* lines 169-210: a row without an embedding is reported and skipped, any other is appended
SkipOrAppend(row, idx) ==
    LET emb == ensure_embedding_list(row.embedding)
    IN IF emb = PyNone
       THEN /\ skipped' = skipped \cup {idx}
            /\ UNCHANGED <<ids, documents, embeddings, rowOf>>
       ELSE /\ ids' = Append(ids, vid)
            /\ documents' = Append(documents, SafeDoc(row))
            /\ embeddings' = Append(embeddings, emb.items)
            /\ rowOf' = Append(rowOf, idx)
            /\ UNCHANGED skipped

\* lines 164-210: the while loop has ended; the row is skipped or appended
FinishRow ==
    /\ pc = "dedup" /\ vid \notin used_ids
    /\ MarkUsed
    /\ SkipOrAppend(df[Len(df)], Len(df) - 1)
    /\ pc' = "rows"
    /\ UNCHANGED <<df, vid, original_vid, counter, i, caps, calls, store, report,
                   resolveVars, bootVars>>

\* lines 212-220: the frame is exhausted
EndOfRows ==
    /\ pc = "rows"
    /\ IF ids = <<>>
       THEN pc' = "empty" /\ report' = Append(report, Said("no valid rows", 0))
       ELSE pc' = "add" /\ report' = Append(report, Said("preparing", 0))
    /\ i' = 0
    /\ UNCHANGED <<df, vid, original_vid, counter, used_ids, ids, documents, embeddings,
                   rowOf, assigned, skipped, caps, calls, store, resolveVars, bootVars>>

\* the for loop of line 223 moves to the next batch, or ends
Advance ==
    /\ i' = i + BATCH
    /\ pc' = IF i + BATCH < Len(ids) THEN "add" ELSE "persist"

rowData == <<df, vid, original_vid, counter, used_ids, ids, documents, embeddings,
             rowOf, assigned, skipped>>

rowState == <<rowData, caps>>

\* hasattr(collection, "upsert"), line 244: the same answer every time it is asked
HasUpsert == IF caps.upsert = "unread" THEN {"yes", "no"} ELSE {caps.upsert}

\* lines 230-236
AddKeywordOk ==
    /\ pc = "add"
    /\ calls' = Append(calls, Call("add_keyword", i, BatchOf(i), "ok"))
    /\ store' = store \o BatchOf(i)
    /\ report' = Append(report, Said("inserted", i))
    /\ Advance
    /\ UNCHANGED <<rowState, resolveVars, bootVars>>

\* lines 237-238
AddKeywordTypeError ==
    /\ pc = "add"
    /\ calls' = Append(calls, Call("add_keyword", i, BatchOf(i), "TypeError"))
    /\ report' = Append(report, Said("TypeError, trying positional", i))
    /\ pc' = "positional"
    /\ UNCHANGED <<i, store, rowState, resolveVars, bootVars>>

\* AddKeywordRaises with the exception swallowed and the loop going on
AddKeywordRaises_Swallowed ==
    /\ pc = "add"
    /\ calls' = Append(calls, Call("add_keyword", i, BatchOf(i), "Exception"))
    /\ Advance
    /\ UNCHANGED <<store, report, rowState, resolveVars, bootVars>>

\* line 230 raises something that is no TypeError: no handler, main() ends
AddKeywordRaises ==
    /\ pc = "add"
    /\ calls' = Append(calls, Call("add_keyword", i, BatchOf(i), "Exception"))
    /\ pc' = "failed"
    /\ UNCHANGED <<i, store, report, rowState, resolveVars, bootVars>>

\* lines 240-241
AddPositionalOk ==
    /\ pc = "positional"
    /\ calls' = Append(calls, Call("add_positional", i, BatchOf(i), "ok"))
    /\ store' = store \o BatchOf(i)
    /\ report' = Append(report, Said("inserted (positional)", i))
    /\ Advance
    /\ UNCHANGED <<rowState, resolveVars, bootVars>>

\* AddPositionalRaises re-raising without the upsert of lines 244-246
AddPositionalRaises_NoUpsert ==
    /\ pc = "positional"
    /\ calls' = Append(calls, Call("add_positional", i, BatchOf(i), "Exception"))
    /\ report' = Append(report, Said("failed positional", i))
    /\ \E has \in HasUpsert : caps' = [upsert |-> has]
    /\ pc' = "failed"
    /\ UNCHANGED <<i, store, rowData, resolveVars, bootVars>>

\* lines 242-248: upsert when the collection has it, else the exception is re-raised
AddPositionalRaises ==
    /\ pc = "positional"
    /\ calls' = Append(calls, Call("add_positional", i, BatchOf(i), "Exception"))
    /\ report' = Append(report, Said("failed positional", i))
    /\ \E has \in HasUpsert :
          /\ caps' = [upsert |-> has]
          /\ pc' = IF has = "yes" THEN "upsert" ELSE "failed"
    /\ UNCHANGED <<i, store, rowData, resolveVars, bootVars>>

\* lines 245-246
UpsertOk ==
    /\ pc = "upsert"
    /\ calls' = Append(calls, Call("upsert", i, BatchOf(i), "ok"))
    /\ store' = UpsertInto(store, BatchOf(i))
    /\ report' = Append(report, Said("upserted", i))
    /\ Advance
    /\ UNCHANGED <<rowState, resolveVars, bootVars>>

\* line 245 raises inside the handler: main() ends
UpsertRaises ==
    /\ pc = "upsert"
    /\ calls' = Append(calls, Call("upsert", i, BatchOf(i), "Exception"))
    /\ pc' = "failed"
    /\ UNCHANGED <<i, store, report, rowState, resolveVars, bootVars>>

\* lines 251-262, client.persist() returns
PersistOk ==
    /\ pc = "persist"
    /\ calls' = Append(calls, Call("persist", i, <<>>, "ok"))
    /\ report' = report \o <<Said("persist called", 0), Said("SUCCESS", 0)>>
    /\ pc' = "done"
    /\ UNCHANGED <<i, store, rowState, resolveVars, bootVars>>

\* lines 251-262, client.persist() raises: noted, and the report still follows
PersistRaises ==
    /\ pc = "persist"
    /\ calls' = Append(calls, Call("persist", i, <<>>, "Exception"))
    /\ report' = report \o <<Said("error while persisting", 0), Said("SUCCESS", 0)>>
    /\ pc' = "done"
    /\ UNCHANGED <<i, store, rowState, resolveVars, bootVars>>

\* lines 251-262, the client has no persist (hasattr of line 252 is false)
NoPersist ==
    /\ pc = "persist"
    /\ report' = Append(report, Said("SUCCESS", 0))
    /\ pc' = "done"
    /\ UNCHANGED <<i, calls, store, rowState, resolveVars, bootVars>>

NextLoader ==
    \/ NextRow \/ Suffix \/ FinishRow \/ EndOfRows
    \/ AddKeywordOk \/ AddKeywordTypeError \/ AddKeywordRaises
    \/ AddPositionalOk \/ AddPositionalRaises
    \/ UpsertOk \/ UpsertRaises
    \/ PersistOk \/ PersistRaises \/ NoPersist

SpecLoader == InitLoader /\ [][NextLoader]_vars

----------------------------------------------------------------------------
(* Properties                                                              *)

Range(seq) == {seq[k] : k \in 1..Len(seq)}
NoDuplicate(seq) == \A a, b \in 1..Len(seq) : a /= b => seq[a] /= seq[b]

RECURSIVE Ascending(_)
Ascending(S) == IF S = {} THEN <<>>
                ELSE LET m == CHOOSE x \in S : \A y \in S : x <= y
                     IN <<m>> \o Ascending(S \ {m})

\* X with the numeric suffix k
Suffixed(X, k) == X \o <<"_">> \o IntToStr(k)

\* X when it is free, else X_k for the smallest k >= 1 with X_k free
UniqueFor(X, used) ==
    IF X \notin used THEN X
    ELSE Suffixed(X, CHOOSE k \in 1..(Cardinality(used) + 1) :
                        /\ Suffixed(X, k) \notin used
                        /\ \A j \in 1..(k - 1) : Suffixed(X, j) \in used)

RECURSIVE ExpectedIds(_)
\* the IDs the rows of a frame are to get, row by row
ExpectedIds(rows) ==
    IF rows = <<>> THEN <<>>
    ELSE LET front == ExpectedIds(SubSeq(rows, 1, Len(rows) - 1))
         IN Append(front, UniqueFor(get_valid_video_id(rows[Len(rows)], Len(rows) - 1),
                                    Range(front)))

StoreCalls == SelectSeq(calls, LAMBDA c : c.call /= "persist")

(* C1: no two documents handed to the collection carry the same ID: ids    *)
(* never holds a duplicate, no stored document shares its ID with another, *)
(* and two store calls name the same ID only for the same document of the  *)
(* same batch (a fallback call repeating the batch).                       *)
C1_IdsUnique ==
    /\ NoDuplicate(ids)
    /\ NoDuplicate([k \in 1..Len(store) |-> store[k].id])
    /\ \A p, q \in 1..Len(calls) :
          \A a \in 1..Len(calls[p].batch), b \in 1..Len(calls[q].batch) :
             calls[p].batch[a].id = calls[q].batch[b].id
                => calls[p].start + a = calls[q].start + b

\* two rows resolved to the same ID, both had an embedding, and the run completed
C1_Witness ==
    /\ pc = "done"
    /\ Len(store) = Len(ids)
    /\ \E a, b \in 1..Len(df) :
          /\ a < b
          /\ get_valid_video_id(df[a], a - 1) = get_valid_video_id(df[b], b - 1)
          /\ {a - 1, b - 1} \subseteq Range(rowOf)

\* an embedding cell is parsable: text, not empty, that one of the parsers reads as a list
Parsable(cell) == cell.t = "str" /\ ~cell.empty /\ (cell.lit.k = "iter" \/ cell.js.k = "iter")

ValidRows == {k \in 1..Len(df) : Parsable(df[k].embedding)}

RECURSIVE Concat(_)
Concat(seqs) == IF seqs = <<>> THEN <<>> ELSE Head(seqs) \o Concat(Tail(seqs))

(* C2: in a run that ended with no store call failing, the collection      *)
(* holds exactly one document per row with a parsable embedding, under     *)
(* that row's unique ID and in row order; every other row was reported as  *)
(* skipped and has no document; the batches hold at most BATCH documents   *)
(* and, put end to end, are the valid rows once each.                      *)
C2_ValidRowsInsertedOnce ==
    (pc \in {"done", "empty"} /\ \A p \in 1..Len(StoreCalls) : StoreCalls[p].outcome = "ok")
    => LET valid == Ascending(ValidRows)
           want == ExpectedIds(df)
       IN /\ Len(store) = Len(valid)
          /\ \A k \in 1..Len(valid) : store[k].id = want[valid[k]]
          /\ skipped = {k - 1 : k \in (1..Len(df)) \ ValidRows}
          /\ \A p \in 1..Len(StoreCalls) :
                Len(StoreCalls[p].batch) \in 1..BATCH /\ StoreCalls[p].call = "add_keyword"
          /\ Concat([p \in 1..Len(StoreCalls) |-> StoreCalls[p].batch]) = store

\* a completed run of two batches with a skipped row in the frame
C2_Witness ==
    /\ pc = "done"
    /\ \A p \in 1..Len(StoreCalls) : StoreCalls[p].outcome = "ok"
    /\ Len(StoreCalls) = 2
    /\ skipped /= {}
    /\ Len(store) = 3

\* a cell that holds a usable ID: a value, with text besides whitespace, that does not read "nan"
HoldsId(v) == /\ v.t \in {"str", "int"}
              /\ \E k \in 1..Len(Str(v)) : Str(v)[k] \notin Whitespace
              /\ Lower(Str(v)) /= <<"n", "a", "n">>

\* the text of a cell without the whitespace around it
Trimmed(s) == LET inked == {k \in 1..Len(s) : s[k] \notin Whitespace}
              IN SubSeq(s, CHOOSE a \in inked : \A b \in inked : a <= b,
                           CHOOSE a \in inked : \A b \in inked : a >= b)

\* what follows the first "v=" of a text, up to the next "&" or "v="
ValueOfV(s) ==
    LET at == CHOOSE k \in 1..Len(s) : /\ s[k] = "v" /\ k < Len(s) /\ s[k + 1] = "="
                                       /\ \A j \in 1..(k - 1) : ~(s[j] = "v" /\ s[j + 1] = "=")
        rest == SubSeq(s, at + 2, Len(s))
        stop == {k \in 1..Len(rest) :
                    rest[k] = "&" \/ (rest[k] = "v" /\ k < Len(rest) /\ rest[k + 1] = "=")}
    IN IF stop = {} THEN rest
       ELSE SubSeq(rest, 1, (CHOOSE k \in stop : \A j \in stop : k <= j) - 1)

HasV(s) == \E k \in 1..(Len(s) - 1) : s[k] = "v" /\ s[k + 1] = "="

C4_SmallestFreeSuffix ==
    /\ used_ids = Range(assigned)
    /\ pc /= "dedup" => assigned = ExpectedIds(df)
    /\ pc = "dedup" =>
          /\ assigned = ExpectedIds(SubSeq(df, 1, Len(df) - 1))
          /\ counter <= Cardinality(used_ids) + 1
          /\ original_vid = get_valid_video_id(df[Len(df)], Len(df) - 1)
          /\ vid = IF counter = 1 THEN original_vid ELSE Suffixed(original_vid, counter - 1)
          /\ \A j \in 1..(counter - 2) : Suffixed(original_vid, j) \in used_ids

\* a row got the suffix 2 because X and X_1 were both taken
C4_Witness ==
    /\ pc = "rows"
    /\ \E k \in 1..Len(df) :
          LET X == get_valid_video_id(df[k], k - 1)
          IN /\ assigned[k] = Suffixed(X, 2)
             /\ \E a, b \in 1..(k - 1) : assigned[a] = X /\ assigned[b] = Suffixed(X, 1)

\* a cell that holds a value, and not the empty text
Present(v) == v.t \notin {"None", "NaN"} /\ v /= PyStr(<<>>)

(* C5: the document is the first present, non-empty value among            *)
(* transcript_clean, combined_text and transcript, as text, and the empty  *)
(* string when none of the three is present.                               *)
C5_FirstPresentValue ==
    ret /= NoRet =>
        LET fields == <<arg.transcript_clean, arg.combined_text, arg.transcript>>
            have == {k \in 1..3 : Present(fields[k])}
        IN ret.safe_doc = IF have = {} THEN <<>>
                          ELSE Str(fields[CHOOSE k \in have : \A j \in have : k <= j])

(* C6 as stated: a selected document value that is missing or is not a     *)
(* string gives the document "".                                           *)
C6_NonStringGivesEmpty ==
    ret /= NoRet => (ret.raw.t /= "str" => ret.safe_doc = <<>>)

(* C6: a selected document value that is missing (None or NaN) gives the   *)
(* document ""; a value that is not a string, such as a number, gives its  *)
(* str() text, which is not empty; a string is kept as it is.              *)
C6_MissingGivesEmpty ==
    ret /= NoRet =>
        /\ ret.raw.t \in {"None", "NaN"} => ret.safe_doc = <<>>
        /\ ret.raw.t = "int" => ret.safe_doc = IntToStr(ret.raw.n) /\ ret.safe_doc /= <<>>
        /\ ret.raw.t = "str" => ret.safe_doc = ret.raw.s

\* the number 5 was selected and the document is "5"
C6_Witness ==
    /\ ret /= NoRet
    /\ arg.transcript_clean = PyNaN
    /\ ret.raw = PyInt(5)
    /\ ret.safe_doc = <<"5">>

ClientAttempts == SelectSeq(attempts, LAMBDA a : a.fn = "create_chroma_client")
CollectionAttempts == SelectSeq(attempts, LAMBDA a : a.fn = "get_or_create_collection")
LinesAbout(fn, call, kind) == {k \in 1..Len(printed) : printed[k] = Line(fn, call, kind)}

(* C7: the strategies are tried in the order PersistentClient, HttpClient, *)
(* Client(Settings), Client(path); the first that does not raise gives the *)
(* client and none is tried after it; a strategy that raises is followed   *)
(* by the next; RuntimeError is raised exactly when all four raised.       *)
C7_FirstWorkingStrategy ==
    LET ca == ClientAttempts
    IN /\ Len(ca) <= 4
       /\ \A k \in 1..Len(ca) : ca[k].call = Strategies[k]
       /\ \A k \in 1..Len(ca) :
             IF ca[k].outcome = "ok"
             THEN /\ k = Len(ca)
                  /\ bpc \notin {"setup", "PersistentClient", "HttpClient", "Settings", "Client"}
                  /\ \A s \in 1..4 : Cardinality(LinesAbout("create_chroma_client", Strategies[s], "created"))
                                        = IF s = k THEN 1 ELSE 0
             ELSE k < 4 => (Len(ca) > k \/ bpc = Strategies[k + 1])
       /\ result = Raised("create_chroma_client", "RuntimeError")
             <=> (Len(ca) = 4 /\ \A k \in 1..4 : ca[k].outcome /= "ok")

\* the third strategy gave the client after the first two raised
C7_Witness ==
    /\ Len(ClientAttempts) = 3
    /\ ClientAttempts[1].outcome = "AttributeError"
    /\ ClientAttempts[2].outcome = "Exception"
    /\ ClientAttempts[3].outcome = "ok"
    /\ bpc = "collection"

FailedAttempts == {k \in 1..Len(attempts) : attempts[k].outcome /= "ok"}

(* C8 as stated: for every strategy that raises, of the client and of the  *)
(* collection, a diagnostic line is printed, and RuntimeError is raised    *)
(* only after every strategy was tried.                                    *)
C8_EveryFailureLoggedAndAllTried ==
    /\ \A k \in FailedAttempts :
          LinesAbout(attempts[k].fn, attempts[k].call, "failed") /= {}
    /\ result = Raised("create_chroma_client", "RuntimeError") => Len(ClientAttempts) = 4
    /\ result = Raised("get_or_create_collection", "RuntimeError")
          => env \subseteq {a.call : a \in Range(CollectionAttempts)}

(* C8: in create_chroma_client a strategy that raises is followed by the   *)
(* next one and RuntimeError comes only after all four raised; a line is   *)
(* printed for each failure except HttpClient's, which is silent.  In      *)
(* get_or_create_collection the entry point is the first the client has    *)
(* among get_or_create_collection, create_collection, get_collection; only *)
(* a create_collection that raises is followed by another call             *)
(* (get_collection, when the client has it) and nothing is printed for it; *)
(* any other call that raises prints one line and RuntimeError follows     *)
(* with no other entry point tried.                                        *)
C8_FailuresAsHandled ==
    LET ca == ClientAttempts
        co == CollectionAttempts
        first == IF "get_or_create_collection" \in env THEN "get_or_create_collection"
                 ELSE IF "create_collection" \in env THEN "create_collection"
                 ELSE "get_collection"
    IN /\ \A k \in 1..Len(ca) : ca[k].outcome /= "ok" =>
             /\ Cardinality(LinesAbout("create_chroma_client", ca[k].call, "failed"))
                   = IF ca[k].call = "HttpClient" THEN 0 ELSE 1
             /\ k < 4 => (Len(ca) > k \/ bpc = Strategies[k + 1])
       /\ result = Raised("create_chroma_client", "RuntimeError") => Len(ca) = 4
       /\ Len(co) <= 2
       /\ Len(co) >= 1 => co[1].call = first /\ first \in env
       /\ Len(co) = 2 => /\ co[1] = Attempt("get_or_create_collection", "create_collection", "Exception")
                         /\ co[2].call = "get_collection"
                         /\ "get_collection" \in env
       /\ \A k \in 1..Len(co) : co[k].outcome /= "ok" =>
             IF co[k].call = "create_collection"
             THEN /\ LinesAbout("get_or_create_collection", "create_collection", "failed") = {}
                  /\ IF "get_collection" \in env
                     THEN Len(co) = 2 \/ bpc = "get_after_create"
                     ELSE result = Raised("get_or_create_collection", "RuntimeError")
             ELSE /\ k = Len(co)
                  /\ Cardinality(LinesAbout("get_or_create_collection", co[k].call, "failed")) = 1
                  /\ result = Raised("get_or_create_collection", "RuntimeError")

\* HttpClient raised without a line, and get_or_create_collection raised on a client
\* that also has create_collection and get_collection, which were not tried
C8_Witness ==
    /\ \E k \in 1..Len(ClientAttempts) :
          ClientAttempts[k] = Attempt("create_chroma_client", "HttpClient", "Exception")
    /\ LinesAbout("create_chroma_client", "HttpClient", "failed") = {}
    /\ env = CollectionAttrs
    /\ CollectionAttempts = <<Attempt("get_or_create_collection", "get_or_create_collection", "Exception")>>
    /\ result = Raised("get_or_create_collection", "RuntimeError")

OkCallsOf(start) == {p \in 1..Len(calls) : calls[p].start = start /\ calls[p].outcome = "ok"
                                            /\ calls[p].call /= "persist"}
InsertLinesOf(start) == {k \in 1..Len(report) :
                            /\ report[k].start = start
                            /\ report[k].kind \in {"inserted", "inserted (positional)", "upserted"}}

(* C9: each batch is first handed to the keyword add; the positional add   *)
(* is called only right after a TypeError of the keyword add, and upsert   *)
(* only right after a failure of the positional add, with the same batch;  *)
(* each of these fallbacks is taken; the run fails inside the fallback     *)
(* chain only when the positional add failed and there is no upsert, or    *)
(* upsert failed; at most one call inserts a batch and at most one line    *)
(* reports it.                                                             *)
C9_FallbackChain ==
    /\ \A p \in 1..Len(StoreCalls) :
          LET c == StoreCalls[p]
          IN /\ c.call = "add_keyword" =>
                   \/ p = 1 /\ c.start = 0
                   \/ p > 1 /\ StoreCalls[p - 1].outcome = "ok"
                            /\ StoreCalls[p - 1].start + BATCH = c.start
             /\ c.call = "add_positional" =>
                   /\ p > 1
                   /\ StoreCalls[p - 1] = Call("add_keyword", c.start, c.batch, "TypeError")
             /\ c.call = "upsert" =>
                   /\ p > 1
                   /\ StoreCalls[p - 1] = Call("add_positional", c.start, c.batch, "Exception")
                   /\ caps.upsert = "yes"
             /\ (c.call = "add_keyword" /\ c.outcome = "TypeError") =>
                   IF p = Len(StoreCalls) THEN pc = "positional"
                   ELSE StoreCalls[p + 1].call = "add_positional"
             /\ (c.call = "add_positional" /\ c.outcome = "Exception" /\ caps.upsert = "yes") =>
                   IF p = Len(StoreCalls) THEN pc = "upsert"
                   ELSE StoreCalls[p + 1].call = "upsert"
             /\ c.batch = BatchOf(c.start)
    /\ (pc = "failed" /\ calls[Len(calls)].call /= "add_keyword") =>
          LET c == calls[Len(calls)]
          IN /\ c.outcome = "Exception"
             /\ \/ c.call = "add_positional" /\ caps.upsert = "no"
                \/ c.call = "upsert"
    /\ \A start \in 0..Len(ids) :
          /\ Cardinality(OkCallsOf(start)) <= 1
          /\ Cardinality(InsertLinesOf(start)) = Cardinality(OkCallsOf(start))

\* a batch went through all three calls and upsert inserted it
C9_Witness ==
    /\ pc = "done"
    /\ \E p \in 1..Len(calls) :
          /\ p >= 3
          /\ calls[p].call = "upsert" /\ calls[p].outcome = "ok"
          /\ calls[p - 1].call = "add_positional"
          /\ calls[p - 2].call = "add_keyword"
          /\ calls[p].start > 0

\* a call whose exception leaves main()
Fatal(c) == \/ c.call = "add_keyword" /\ c.outcome = "Exception"
            \/ c.call = "add_positional" /\ c.outcome = "Exception" /\ caps.upsert = "no"
            \/ c.call = "upsert" /\ c.outcome = "Exception"

(* C10: batches are handed over in increasing row order; a call whose      *)
(* exception is not handled is the last call the run ever makes: no later  *)
(* batch is attempted, the batches before it stay in the collection,       *)
(* client.persist() is not called and the success report is not printed.   *)
C10_FailureHalts ==
    /\ \A p, q \in 1..Len(calls) : p < q => calls[p].start <= calls[q].start
    /\ \A p \in 1..Len(calls) : Fatal(calls[p]) => p = Len(calls) /\ pc = "failed"
    /\ pc = "failed" =>
          /\ calls /= <<>> /\ Fatal(calls[Len(calls)])
          /\ calls[Len(calls)].start = i
          /\ Len(store) = i
          /\ \A k \in 1..i : store[k].id = ids[k] /\ store[k].document = documents[k]
          /\ \A p \in 1..Len(calls) : calls[p].call /= "persist"
          /\ \A k \in 1..Len(report) : report[k].kind /= "SUCCESS"

\* the second batch failed after the first was inserted
C10_Witness ==
    /\ pc = "failed"
    /\ i = BATCH
    /\ Len(store) = BATCH
    /\ Len(ids) > BATCH

====
